---- MODULE Spec2Model ----
(***************************************************************************)
(* Model of Modules/_ctypes/dlfcn_aix.c: the AIX member-multiplexing       *)
(* loader behind ctypes_dlopen / ctypes_dlclose / ctypes_dlsym.            *)
(*                                                                         *)
(* C strings are sequences of one-character strings.  A pointer into a     *)
(* string is a 1-based index; index 0 is the NULL pointer and index        *)
(* Len(s)+1 is the terminating NUL.  Handles are integers: NULL is 0, the  *)
(* three RTLD_* sentinels are negative, a wrapper object malloc'ed by      *)
(* single_open / multiple_open is its index in the heap `objects', and a   *)
(* native handle returned by dlopen(3) is its index in `native'.           *)
(*                                                                         *)
(* Every facade call is one atomic action.  What the operating system      *)
(* answers (malloc, dlopen, dlclose, dlsym) is an input of the action,     *)
(* drawn with \E.  `last' is the record of the most recent facade call:    *)
(* its arguments, its result and the native calls it issued, in order.     *)
(***************************************************************************)
EXTENDS Integers, Sequences, FiniteSets, TLC

\* ------------------------------------------------------------------ bounds
MaxPathLen == 5      \* SpecOpen: every string over Alphabet up to this length
MaxMembers == 3      \* Spec: member lists of "f(m1,...,mN)" up to this N
MaxObjects == 1      \* wrapper objects malloc'ed in one behaviour
MaxGrow == 2         \* SpecQuery: times loadquery may answer "buffer too small"

\* --------------------------------------------------------------- constants
NULL == 0
RTLD_DEFAULT == -1
RTLD_MYSELF == -2
RTLD_NEXT == -3
RTLD_MEMBER == 262144
EINVAL == 22
ENOMEM == 12
InitialSize == 1024
Increment == 1024

Sentinels == {RTLD_DEFAULT, RTLD_MYSELF, RTLD_NEXT}

NUL == ""
Alphabet == {"f", "(", ")", ",", "/"}

Max(S) == CHOOSE x \in S : \A y \in S : y <= x
Min(S) == CHOOSE x \in S : \A y \in S : x <= y

\* A path argument: the pointer value and, for a real string, its characters.
SpecialPath(p) == [ptr |-> p, chars |-> <<>>]
StringPath(s) == [ptr |-> 1, chars |-> s]

\* Mutant of BitOr: the flag is added instead of or-ed in.
BitOr_plus(a, b) == a + b

\* mode | flag, bit by bit.
RECURSIVE BitOr(_, _)
BitOr(a, b) ==
    IF a = 0 THEN b
    ELSE IF b = 0 THEN a
    ELSE (IF a % 2 = 1 \/ b % 2 = 1 THEN 1 ELSE 0) + 2 * BitOr(a \div 2, b \div 2)

\* ------------------------------------------------------------- <string.h>
\* strrchr(s, c): the last occurrence of c, or NULL.
strrchr(s, c) ==
    LET I == {i \in 1..Len(s) : s[i] = c}
    IN  IF I = {} THEN 0 ELSE Max(I)

\* strchr(s + from - 1, c): the first occurrence of c at or after `from'.
strchr(s, from, c) ==
    LET I == {i \in from..Len(s) : s[i] = c}
    IN  IF I = {} THEN 0 ELSE Min(I)

\* *(s + i - 1): the character at a pointer, NUL at the end of the string.
At(s, i) == IF i \in 1..Len(s) THEN s[i] ELSE NUL

\* strlen(s + from - 1)
strlen(s, from) == Len(s) - from + 1

\* The string a char buffer holds: everything before its first NUL.
CStr(buf) ==
    LET I == {i \in 1..Len(buf) : buf[i] = NUL}
    IN  IF I = {} THEN buf ELSE SubSeq(buf, 1, Min(I) - 1)

\* Mutant of strdup: pathbuf = (char *)path, the caller's string itself.
strdup_alias(s) == [id |-> "path", bytes |-> Append(s, NUL)]

\* strdup(path): a new buffer of strlen(path)+1 bytes holding path and its
\* NUL.  A buffer is known by what it is (id) and what it holds (bytes).
strdup(s) == [id |-> "pathbuf", bytes |-> Append(s, NUL)]

\* A write through a pointer reaches the caller's string only when the
\* pointer points into it.
store(m, buf) == [m EXCEPT !.caller = IF buf.id = "path" THEN buf.bytes ELSE @]

\* strncpy(dst + at - 1, src + from - 1, n) where src has at least n chars
\* left: exactly n chars are copied and no NUL is written.
strncpy(buf, at, src, from, n) ==
    [i \in 1..Len(buf) |->
        IF i >= at /\ i < at + n THEN src[from + (i - at)] ELSE buf[i]]

\* strcpy(dst + at - 1, ")"): the character and its NUL.
strcpy_paren(buf, at) ==
    [i \in 1..Len(buf) |->
        IF i = at THEN ")" ELSE IF i = at + 1 THEN NUL ELSE buf[i]]

\* ------------------------------------------------- the state of one call
\* The machine state threaded through one facade call: the heap of wrapper
\* objects, the native handles, errno, the value being returned, and the log
\* of what the call did.  caller holds the bytes of the caller's path string
\* during ctypes_dlopen; pathbuf tells whether multiple_open's copy of it has
\* not been made ("none"), is allocated ("held") or has been released.
Begin(objs, nat, err) ==
    [objects |-> objs, native |-> nat, errno |-> err, ret |-> NULL,
     opens |-> <<>>, closes |-> <<>>, probes |-> <<>>, frees |-> <<>>,
     mallocs |-> 0, nomem |-> FALSE, pathbuf |-> "none", caller |-> <<>>,
     deref |-> FALSE, parsed |-> FALSE, crashed |-> FALSE]

\* The address a native lookup through handle h reports when it resolves.
AddrOf(h) == IF h > 0 THEN h ELSE 1 - h

\* ---------------------------------------------------- the operating system
\* malloc / strdup: the e.nomem-th allocation of the call fails (0: none),
\* and a failing allocation sets errno to ENOMEM.
alloc(m, e) ==
    LET ok == (m.mallocs + 1) # e.nomem
    IN  [m EXCEPT !.mallocs = @ + 1,
                  !.nomem = @ \/ ~ok,
                  !.errno = IF ok THEN @ ELSE ENOMEM,
                  !.ret = IF ok THEN 1 ELSE NULL]

\* dlopen(path, mode): a fresh native handle, or NULL for the opens e.ofails
\* names (by their position among the native opens of this call).  The log
\* entry keeps the number of allocations the call had made before this open.
dlopen(m, e, p, mode) ==
    LET ok == (Len(m.opens) + 1) \notin e.ofails
        h == IF ok THEN Len(m.native) + 1 ELSE NULL
    IN  [m EXCEPT !.native = IF ok THEN Append(@, 0) ELSE @,
                  !.opens = Append(@, [path |-> p, mode |-> mode, h |-> h,
                                             after |-> m.mallocs]),
                  !.ret = h]

\* dlclose(h): native[h] counts the native closes issued on h; the closes
\* e.cfails names (by position in this call) report failure.
dlclose(m, e, h) ==
    LET ok == (Len(m.closes) + 1) \notin e.cfails
    IN  [m EXCEPT !.native = IF h \in 1..Len(@) THEN [@ EXCEPT ![h] = @ + 1] ELSE @,
                  !.closes = Append(@, [h |-> h, ok |-> ok]),
                  !.ret = IF ok THEN 0 ELSE EINVAL]

\* dlsym(h, symbol): what the lookup through h answers is e.syms[h]:
\*   "addr"  the symbol's address, errno untouched
\*   "miss"  NULL, no error, errno untouched
\*   "miss0" NULL, no error, errno cleared to 0
\*   "err"   NULL, and errno set
SymOutcomes == {"addr", "miss", "miss0", "err"}

dlsym(m, e, h) ==
    LET o == e.syms[h]
    IN  [m EXCEPT !.probes = Append(@, [h |-> h, out |-> o]),
                  !.errno = IF o = "err" THEN EINVAL
                            ELSE IF o = "miss0" THEN 0 ELSE @,
                  !.ret = IF o = "addr" THEN AddrOf(h) ELSE NULL]

\* free(ptr) of a wrapper object.
free(m, h) ==
    [m EXCEPT !.objects = [@ EXCEPT ![h].frees = @ + 1],
              !.frees = Append(@, h)]

\* malloc of a wrapper object whose fields are not yet written; slots is the
\* number of handle slots the allocation has room for.
NewObject == [loader |-> "unset", dlhandles |-> <<>>, frees |-> 0, slots |-> 1]

\* ------------------------------------------------------------ SingleObject
\* Mutant of single_close: the wrapper is freed only when dlclose succeeded.
single_close_keep(m, e, handle) ==
    IF handle # NULL
    THEN LET m1 == dlclose(m, e, m.objects[handle].dlhandles[1])
             ret == m1.ret
         IN  IF ret = 0 THEN [free(m1, handle) EXCEPT !.ret = ret] ELSE m1
    ELSE [m EXCEPT !.errno = EINVAL, !.ret = EINVAL]

single_close(m, e, handle) ==
    IF handle # NULL
    THEN LET m1 == dlclose(m, e, m.objects[handle].dlhandles[1])
             ret == m1.ret
         IN  [free(m1, handle) EXCEPT !.ret = ret]
    ELSE [m EXCEPT !.errno = EINVAL, !.ret = EINVAL]

single_sym(m, e, handle) ==
    IF handle # NULL
    THEN dlsym(m, e, m.objects[handle].dlhandles[1])
    ELSE [m EXCEPT !.errno = EINVAL, !.ret = NULL]

single_open(m, e, path, mode) ==
    LET m1 == alloc(m, e)
    IN  IF m1.ret # NULL
        THEN LET object == Len(m1.objects) + 1
                 m2 == [m1 EXCEPT !.objects = Append(@, NewObject)]
                 m3 == dlopen(m2, e, path, mode)
             IN  IF m3.ret # NULL
                 THEN [m3 EXCEPT !.objects[object] =
                                    [@ EXCEPT !.loader = "single",
                                              !.dlhandles = <<m3.ret>>],
                                 !.ret = object]
                 ELSE [free(m3, object) EXCEPT !.ret = NULL]
        ELSE [m1 EXCEPT !.ret = NULL]

\* --------------------------------------------------------- MultipleObjects
\* Mutant of multiple_close_loop: while(*++dlhandles), the first handle is
\* stepped over.
RECURSIVE multiple_close_loop_skip(_, _, _, _, _)
multiple_close_loop_skip(m, e, dlhandles, i, ret) ==
    IF i + 1 > Len(dlhandles)
    THEN [m EXCEPT !.ret = ret]
    ELSE LET m1 == dlclose(m, e, dlhandles[i + 1])
         IN  multiple_close_loop_skip(m1, e, dlhandles, i + 1,
                                      IF m1.ret # 0 THEN EINVAL ELSE ret)

\* Mutant of multiple_close_loop: the loop is left at the first dlclose that
\* fails.
RECURSIVE multiple_close_loop_break(_, _, _, _, _)
multiple_close_loop_break(m, e, dlhandles, i, ret) ==
    IF i > Len(dlhandles)
    THEN [m EXCEPT !.ret = ret]
    ELSE LET m1 == dlclose(m, e, dlhandles[i])
         IN  IF m1.ret # 0
             THEN [m1 EXCEPT !.ret = EINVAL]
             ELSE multiple_close_loop_break(m1, e, dlhandles, i + 1, ret)

\* while(*dlhandles) { if (dlclose(*dlhandles) != 0) ret = EINVAL; ++dlhandles; }
\* The result carries the loop's `ret' in .ret.
RECURSIVE multiple_close_loop(_, _, _, _, _)
multiple_close_loop(m, e, dlhandles, i, ret) ==
    IF i > Len(dlhandles)
    THEN [m EXCEPT !.ret = ret]
    ELSE LET m1 == dlclose(m, e, dlhandles[i])
         IN  multiple_close_loop(m1, e, dlhandles, i + 1,
                                 IF m1.ret # 0 THEN EINVAL ELSE ret)

\* Mutant of multiple_close: ret = dlclose(...), the last close decides.
RECURSIVE multiple_close_lastwins_loop(_, _, _, _, _)
multiple_close_lastwins_loop(m, e, dlhandles, i, ret) ==
    IF i > Len(dlhandles)
    THEN [m EXCEPT !.ret = ret]
    ELSE LET m1 == dlclose(m, e, dlhandles[i])
         IN  multiple_close_lastwins_loop(m1, e, dlhandles, i + 1, m1.ret)

multiple_close_lastwins(m, e, handle) ==
    IF handle # NULL
    THEN LET m1 == multiple_close_lastwins_loop(m, e, m.objects[handle].dlhandles, 1, 0)
             ret == m1.ret
             m2 == free(m1, handle)
         IN  IF ret = 0
             THEN [m2 EXCEPT !.ret = 0]
             ELSE [m2 EXCEPT !.errno = EINVAL, !.ret = EINVAL]
    ELSE [m EXCEPT !.errno = EINVAL, !.ret = EINVAL]

multiple_close(m, e, handle) ==
    IF handle # NULL
    THEN LET m1 == multiple_close_loop(m, e, m.objects[handle].dlhandles, 1, 0)
             ret == m1.ret
             m2 == free(m1, handle)
         IN  IF ret = 0
             THEN [m2 EXCEPT !.ret = 0]
             ELSE [m2 EXCEPT !.errno = EINVAL, !.ret = EINVAL]
    ELSE [m EXCEPT !.errno = EINVAL, !.ret = EINVAL]

\* Mutant of multiple_sym_loop: if (ret) return ret, errno is not looked at.
RECURSIVE multiple_sym_loop_noerr(_, _, _, _)
multiple_sym_loop_noerr(m, e, dlhandles, i) ==
    IF i > Len(dlhandles)
    THEN [m EXCEPT !.ret = NULL]
    ELSE LET m1 == dlsym(m, e, dlhandles[i])
         IN  IF m1.ret # NULL
             THEN m1
             ELSE multiple_sym_loop_noerr(m1, e, dlhandles, i + 1)

\* Mutant of multiple_sym_loop: the members after a hit are probed as well
\* and the last hit is the one returned.
RECURSIVE multiple_sym_loop_last(_, _, _, _)
multiple_sym_loop_last(m, e, dlhandles, i) ==
    IF i > Len(dlhandles)
    THEN [m EXCEPT !.ret = NULL]
    ELSE LET m1 == dlsym(m, e, dlhandles[i])
             rest == multiple_sym_loop_last(m1, e, dlhandles, i + 1)
         IN  IF m1.ret = NULL /\ m1.errno # 0
             THEN m1
             ELSE IF rest.ret # NULL THEN rest ELSE [rest EXCEPT !.ret = m1.ret]

\* while(*dlhandles) { ret = dlsym(...); if (ret || errno) return ret; ++dlhandles; }
RECURSIVE multiple_sym_loop(_, _, _, _)
multiple_sym_loop(m, e, dlhandles, i) ==
    IF i > Len(dlhandles)
    THEN [m EXCEPT !.ret = NULL]
    ELSE LET m1 == dlsym(m, e, dlhandles[i])
         IN  IF m1.ret # NULL \/ m1.errno # 0
             THEN m1
             ELSE multiple_sym_loop(m1, e, dlhandles, i + 1)

multiple_sym(m, e, handle) ==
    IF handle # NULL
    THEN multiple_sym_loop(m, e, m.objects[handle].dlhandles, 1)
    ELSE [m EXCEPT !.errno = EINVAL, !.ret = NULL]

\* memberno = 1 + the number of ',' in members
CountMembers(path, members) ==
    1 + Cardinality({i \in members..Len(path) : path[i] = ","})

\* Mutant of MemberEnd: the last member ends at the NUL, not at the ')'.
MemberEnd_nul(path, members) ==
    LET nextmember == strchr(path, members, ",")
    IN  IF nextmember = 0 THEN members + strlen(path, members) ELSE nextmember

\* strncpy(memberbuf, members, nextmember - members);
\* strcpy(nextmember - members + memberbuf, ")");
\* the buffer one turn of while(members) hands to dlopen.
MemberEnd(path, members) ==
    LET nextmember == strchr(path, members, ",")
    IN  IF nextmember = 0 THEN members + strlen(path, members) - 1 ELSE nextmember

MemberPath(pathbuf, memberbuf, path, members) ==
    LET nextmember == MemberEnd(path, members)
        b1 == strncpy(pathbuf, memberbuf, path, members, nextmember - members)
    IN  strcpy_paren(b1, nextmember - members + memberbuf)

\* The while(members) loop of multiple_open.  members = 0 is the NULL that
\* ends the loop; the result's .ret is 0 when the loop ran to the end and
\* non-zero when it was left by `break' (members still set).  A member that
\* ends before it starts makes the length given to strncpy negative, a huge
\* size_t: the copy runs off the buffer and the call does not return.
RECURSIVE multiple_open_loop(_, _, _, _, _, _, _, _)
multiple_open_loop(m, e, loaded, path, pathbuf, memberbuf, members, mode) ==
    IF members = 0
    THEN [m EXCEPT !.ret = 0]
    ELSE IF MemberEnd(path, members) < members
    THEN [m EXCEPT !.crashed = TRUE, !.ret = members]
    ELSE LET nextmember == MemberEnd(path, members)
             buf == [pathbuf EXCEPT
                        !.bytes = MemberPath(@, memberbuf, path, members)]
             m1 == dlopen(store(m, buf), e, StringPath(CStr(buf.bytes)), mode)
         IN  IF m1.ret = NULL
             THEN [m1 EXCEPT !.ret = members]
             ELSE multiple_open_loop(
                      [m1 EXCEPT !.objects[loaded].dlhandles = Append(@, m1.ret)],
                      e, loaded, path, buf, memberbuf,
                      IF At(path, nextmember) = "," THEN nextmember + 1 ELSE 0,
                      mode)

\* Mutant of multiple_open: the result of malloc is not tested, the member
\* loop runs whether or not the wrapper could be allocated.
multiple_open_unchecked(m, e, path, members, mode) ==
    LET m1 == alloc(m, e)
    IN  IF m1.ret # NULL
        THEN LET m2 == alloc([m1 EXCEPT !.pathbuf = "held"], e)
                 loaded == Len(m2.objects) + 1
                 m3 == [m2 EXCEPT !.objects =
                            Append(@, [NewObject EXCEPT
                                           !.loader = "multiple",
                                           !.slots = 1 + CountMembers(path, members)])]
                 memberbuf == members
                 m4 == multiple_open_loop(m3, e, loaded, path, strdup(path),
                                          memberbuf, members, mode)
             IN  IF m4.ret # 0
                 THEN [multiple_close(m4, e, loaded)
                           EXCEPT !.pathbuf = "freed", !.ret = NULL]
                 ELSE [m4 EXCEPT !.pathbuf = "freed", !.ret = loaded]
        ELSE [m1 EXCEPT !.ret = NULL]

\* Mutant of multiple_open: after a failed member open the wrapper is freed
\* without closing the members already opened.
multiple_open_leak(m, e, path, members, mode) ==
    LET m1 == alloc(m, e)
    IN  IF m1.ret # NULL
        THEN LET m2 == alloc([m1 EXCEPT !.pathbuf = "held"], e)
             IN  IF m2.ret # NULL
                 THEN LET loaded == Len(m2.objects) + 1
                          m3 == [m2 EXCEPT !.objects =
                                     Append(@, [NewObject EXCEPT
                                                    !.loader = "multiple",
                                                    !.slots = 1 + CountMembers(path, members)])]
                          memberbuf == members
                          m4 == multiple_open_loop(m3, e, loaded, path, strdup(path),
                                                   memberbuf, members, mode)
                      IN  IF m4.ret # 0
                          THEN [free(m4, loaded)
                                    EXCEPT !.pathbuf = "freed", !.ret = NULL]
                          ELSE [m4 EXCEPT !.pathbuf = "freed", !.ret = loaded]
                 ELSE [m2 EXCEPT !.pathbuf = "freed", !.ret = NULL]
        ELSE [m1 EXCEPT !.ret = NULL]

multiple_open(m, e, path, members, mode) ==
    LET m1 == alloc(m, e)                      \* pathbuf = strdup(path)
    IN  IF m1.ret # NULL
        THEN LET m2 == alloc([m1 EXCEPT !.pathbuf = "held"], e)   \* loaded = malloc(...)
             IN  IF m2.ret # NULL
                 THEN LET loaded == Len(m2.objects) + 1
                          m3 == [m2 EXCEPT !.objects =
                                     Append(@, [NewObject EXCEPT
                                                    !.loader = "multiple",
                                                    !.slots = 1 + CountMembers(path, members)])]
                          \* memberbuf = members - path + pathbuf
                          memberbuf == members
                          m4 == multiple_open_loop(m3, e, loaded, path, strdup(path),
                                                   memberbuf, members, mode)
                      IN  IF m4.ret # 0
                          THEN [multiple_close(m4, e, loaded)
                                    EXCEPT !.pathbuf = "freed", !.ret = NULL]
                          ELSE [m4 EXCEPT !.pathbuf = "freed", !.ret = loaded]
                 ELSE [m2 EXCEPT !.pathbuf = "freed", !.ret = NULL]
        ELSE [m1 EXCEPT !.ret = NULL]          \* free(NULL)

\* ------------------------------------------------------------------ facade
\* Mutant of IsObject: RTLD_NEXT is not tested for.
IsObject_nonext(p) == p # NULL /\ p # RTLD_DEFAULT /\ p # RTLD_MYSELF

IsObject(p) == p # NULL /\ p # RTLD_DEFAULT /\ p # RTLD_MYSELF /\ p # RTLD_NEXT

\* Mutant of MemberSpec: opening >= path, a '(' that starts the string counts.
MemberSpec_first(s) ==
    LET closing == strrchr(s, ")")
        opening == strrchr(s, "(")
    IN  /\ closing # 0 /\ strlen(s, closing) = 1
        /\ opening > 0
        /\ strlen(s, opening) > 2
        /\ strchr(s, opening, "/") = 0

\* Mutant of MemberSpec: strlen(opening) > 1, "()" is taken for a member.
MemberSpec_empty(s) ==
    LET closing == strrchr(s, ")")
        opening == strrchr(s, "(")
    IN  /\ closing # 0 /\ strlen(s, closing) = 1
        /\ opening > 1
        /\ strlen(s, opening) > 1
        /\ strchr(s, opening, "/") = 0

\* Mutant of MemberSpec: any ')' will do, it need not end the string.
MemberSpec_anyclose(s) ==
    LET closing == strrchr(s, ")")
        opening == strrchr(s, "(")
    IN  /\ closing # 0
        /\ opening > 1
        /\ strlen(s, opening) > 2
        /\ strchr(s, opening, "/") = 0

\* The test ctypes_dlopen makes on a real string: ends in ')', a '(' after
\* the first character, at least one character between, no '/' from the '('.
MemberSpec(s) ==
    LET closing == strrchr(s, ")")
        opening == strrchr(s, "(")
    IN  /\ closing # 0 /\ strlen(s, closing) = 1
        /\ opening > 1
        /\ strlen(s, opening) > 2
        /\ strchr(s, opening, "/") = 0

ctypes_dlopen(m, e, path, mode) ==
    IF IsObject(path.ptr)
    THEN LET s == path.chars
             mp == [m EXCEPT !.parsed = TRUE, !.caller = Append(s, NUL)]
             opening == strrchr(s, "(")
         IN  IF MemberSpec(s)
             THEN IF strchr(s, opening, ",") # 0
                  THEN multiple_open(mp, e, s, opening + 1, BitOr(mode, RTLD_MEMBER))
                  ELSE single_open(mp, e, path, BitOr(mode, RTLD_MEMBER))
             ELSE single_open(mp, e, path, mode)
    ELSE single_open(m, e, path, mode)

\* object->loader->dl_close / dl_sym: the read of the loader field.  Reading
\* it from a freed object is undefined: the call either goes on with the
\* stale bytes (e.ub = "stale") or does not return (e.ub = "crash").  Reading
\* it through a pointer that is no object at all does not return.
Wild(m, e, handle) ==
    \/ handle \notin DOMAIN m.objects
    \/ m.objects[handle].frees > 0 /\ e.ub = "crash"

ctypes_dlclose(m, e, handle) ==
    IF IsObject(handle)
    THEN LET md == [m EXCEPT !.deref = TRUE]
             object == m.objects[handle]
         IN  IF Wild(m, e, handle)
             THEN [md EXCEPT !.crashed = TRUE]
             ELSE IF object.loader = "single"
                  THEN single_close(md, e, handle)
                  ELSE multiple_close(md, e, handle)
    ELSE dlclose(m, e, handle)

ctypes_dlsym(m, e, handle) ==
    IF IsObject(handle)
    THEN LET md == [m EXCEPT !.deref = TRUE]
             object == m.objects[handle]
         IN  IF Wild(m, e, handle)
             THEN [md EXCEPT !.crashed = TRUE]
             ELSE IF object.loader = "single"
                  THEN single_sym(md, e, handle)
                  ELSE multiple_sym(md, e, handle)
    ELSE dlsym(m, e, handle)

\* ------------------------------------------------------------------- state
VARIABLES
    path,       \* the caller's path argument (never written by the library)
    objects,    \* the heap: every wrapper object malloc'ed so far
    native,     \* native[h]: the number of dlclose calls issued on native handle h
    errno,      \* the C error indicator
    handles,    \* the handles ctypes_dlopen has returned to the caller
    last,       \* the record of the most recent facade call
    lq,         \* the one call of py_loadquery: its locals and what it did
    th,         \* th[t]: the locals of thread t, its errno, the log of its call
    heapbuf     \* heapbuf[b]: the bytes of the path copy b made by strdup

vars == <<path, objects, native, errno, handles, last, lq, th, heapbuf>>

\* The state of the ctypes_dl* facade.
dlvars == <<path, objects, native, errno, handles, last, th, heapbuf>>

\* The modes a caller passes: RTLD_NOW (2), without and with the member flag.
Modes == {2, BitOr(2, RTLD_MEMBER)}

\* The record of a call: what was asked, what came back, what it did.
\*   caller the bytes of the caller's path string when ctypes_dlopen returned
\*   live   the handle argument was a wrapper not yet freed when the call began
\*   would  what each member's native lookup answers in this call, in member order
Log(m, op, harg, mode, live, would) ==
    [op |-> op, harg |-> harg, mode |-> mode, ret |-> m.ret,
     opens |-> m.opens, closes |-> m.closes, probes |-> m.probes,
     frees |-> m.frees, nomem |-> m.nomem, pathbuf |-> m.pathbuf,
     caller |-> m.caller,
     deref |-> m.deref, parsed |-> m.parsed, crashed |-> m.crashed,
     live |-> live, would |-> would]

NoCall == Log(Begin(<<>>, <<>>, 0), "none", NULL, 0, FALSE, <<>>)

\* The member list "a,aa,...": n members, the i-th one i characters long.
RECURSIVE Members(_)
Members(n) ==
    IF n = 1 THEN <<"a">> ELSE Members(n - 1) \o <<",">> \o [i \in 1..n |-> "a"]

Specials == {SpecialPath(p) : p \in {NULL} \cup Sentinels}

LifePaths ==
    Specials \cup {StringPath(<<"f">>)}
        \cup {StringPath(<<"f", "(">> \o Members(n) \o <<")">>) : n \in 1..MaxMembers}

AllPaths ==
    Specials \cup {StringPath(s) : s \in UNION {[1..k -> Alphabet] : k \in 0..MaxPathLen}}

\* py_loadquery entered with argument `flags': the locals as lines 13-18
\* declare them (result and errflag have no initializer), no buffer yet.
\*   result, final_result  "NULL", "list", or what became of them
\*   errflag               "0", "-1", or "unset"
\*   bufs   every buffer malloc has returned, with its size and free count
\*   calls  every call of loadquery, with the buffer, the size, the outcome
LqEntry(flags) ==
    [pc |-> "parse", flags |-> flags, bufsize |-> InitialSize, ldibuf |-> NULL,
     errflag |-> "unset", errno |-> 0, result |-> "unset", final_result |-> "NULL",
     exc |-> "none", bufs |-> <<>>, calls |-> <<>>]

\* No call of py_loadquery is under way.
NoQuery == lq = LqEntry("L_GETINFO")

\* Two threads, each with a member list of its own to open, look a symbol
\* up in, and close.
Threads == {1, 2}

ThreadPath(t) ==
    <<IF t = 1 THEN "f" ELSE "g", "(">> \o Members(MaxMembers - 1) \o <<")">>

\* The log of the call a thread is in: errno as the call found it, which
\* allocation failed (0: none), the native calls in order, the wrapper frees.
\* Native handles are logged by their rank among the handles the thread has
\* been given, the value that is the same in every schedule.
NewLog(err) ==
    [errno0 |-> err, nomem |-> 0, opens |-> <<>>, closes |-> <<>>,
     probes |-> <<>>, frees |-> 0]

\* A thread about to call ctypes_dlopen(ThreadPath(t), RTLD_NOW).
ThreadEntry(t) ==
    [pc |-> "start", path |-> ThreadPath(t), mode |-> 2, errno |-> 0,
     members |-> 0, memberbuf |-> 0, loaded |-> NULL, handle |-> NULL,
     i |-> 0, ret |-> 0, got |-> <<>>, log |-> NewLog(0)]

HeapInit ==
    /\ th = [t \in Threads |-> ThreadEntry(t)]
    /\ heapbuf = [b \in Threads |-> <<>>]
    /\ objects = <<>>
    /\ native = <<>>
    /\ errno = 0
    /\ handles = {}
    /\ last = NoCall

Init == path \in LifePaths /\ HeapInit /\ NoQuery

InitOpen == path \in AllPaths /\ HeapInit /\ NoQuery

\* The most native opens one call can issue for p: one per ','-separated piece.
MaxOpens(p) == 1 + Cardinality({i \in 1..Len(p.chars) : p.chars[i] = ","})

\* The native handles a call on handle h can reach.
Reach(h) == IF IsObject(h) THEN objects[h].dlhandles ELSE <<h>>

Range(f) == {f[i] : i \in DOMAIN f}

Commit(m, log) ==
    /\ objects' = m.objects
    /\ native' = m.native
    /\ errno' = m.errno
    /\ handles' = IF log.op = "dlopen" /\ m.ret # NULL THEN handles \cup {m.ret} ELSE handles
    /\ last' = log
    /\ UNCHANGED <<path, lq, th, heapbuf>>

\* handle = ctypes_dlopen(path, mode), with what the system answers to it.
OpenCall ==
    \E mode \in Modes, nomem \in 0..2, ofail \in 0..MaxOpens(path) :
        \E cfails \in SUBSET (1..(ofail - 1)) :
            LET e == [nomem |-> nomem, ofails |-> {ofail}, cfails |-> cfails,
                      syms |-> <<>>, ub |-> "stale"]
                m == ctypes_dlopen(Begin(objects, native, errno), e, path, mode)
            IN  Commit(m, Log(m, "dlopen", NULL, mode, FALSE, <<>>))

Dlopen == Len(objects) < MaxObjects /\ OpenCall

\* The same call in a process that may hold one more wrapper at a time.
DlopenPair == Len(objects) < MaxObjects + 1 /\ OpenCall

\* The handles a caller that keeps to the contract may pass: NULL, a sentinel,
\* or a handle it was given and has not closed.
Usable == {NULL} \cup Sentinels \cup {h \in handles : objects[h].frees = 0}
Freed == {h \in handles : objects[h].frees = 1}

CloseCall(h, ub) ==
    \E cfails \in SUBSET (1..Len(Reach(h))) :
        LET e == [nomem |-> 0, ofails |-> {}, cfails |-> cfails,
                  syms |-> <<>>, ub |-> ub]
            m == ctypes_dlclose(Begin(objects, native, errno), e, h)
        IN  Commit(m, Log(m, "dlclose", h, 0, h \in handles /\ objects[h].frees = 0, <<>>))

SymCall(h, ub) ==
    \E syms \in [Range(Reach(h)) -> SymOutcomes] :
        LET e == [nomem |-> 0, ofails |-> {}, cfails |-> {},
                  syms |-> syms, ub |-> ub]
            m == ctypes_dlsym(Begin(objects, native, errno), e, h)
            would == [i \in 1..Len(Reach(h)) |-> syms[Reach(h)[i]]]
        IN  Commit(m, Log(m, "dlsym", h, 0, h \in handles /\ objects[h].frees = 0, would))

\* ctypes_dlclose(handle)
Dlclose == \E h \in Usable : CloseCall(h, "stale")

\* ctypes_dlsym(handle, symbol)
Dlsym == \E h \in Usable : SymCall(h, "stale")

\* The same two calls on a handle that was already closed.
DlcloseFreed == \E h \in Freed, ub \in {"stale", "crash"} : CloseCall(h, ub)

DlsymFreed == \E h \in Freed, ub \in {"stale", "crash"} : SymCall(h, ub)

\* ctypes_dlopen applied once, from the initial state.
OpenOnce == last.op = "none" /\ Dlopen

Next == Dlopen \/ Dlclose \/ Dlsym

NextMisuse == Dlopen \/ Dlclose \/ Dlsym \/ DlcloseFreed \/ DlsymFreed

NextOpen == OpenOnce

\* Callers that keep to the handle lifecycle.
Spec == Init /\ [][Next]_vars

\* Callers that may also pass a handle they have already closed.
SpecMisuse == Init /\ [][NextMisuse]_vars

\* ctypes_dlopen on every short string over Alphabet.
SpecOpen == InitOpen /\ [][NextOpen]_vars

\* Two wrappers side by side, each of at most MaxMembers - 1 members.
PairPaths ==
    {StringPath(<<"f">>)}
        \cup {StringPath(<<"f", "(">> \o Members(n) \o <<")">>) : n \in 1..(MaxMembers - 1)}

InitPair == path \in PairPaths /\ HeapInit /\ NoQuery

NextPair == DlopenPair \/ Dlclose \/ Dlsym

SpecPair == InitPair /\ [][NextPair]_vars

\* ------------------------------------------------------------ py_loadquery
\* The argument of loadquery(): one of the four flags the switch lets through,
\* another integer, or something that is not an integer.
ValidFlags == {"L_GETINFO", "L_GETMESSAGES", "L_GETLIBPATH", "L_GETXINFO"}

Flags == ValidFlags \cup {"other", "notint"}

\* What a call of the system's loadquery() answers: 0, or -1 with errno
\* ENOMEM (the buffer is too small), or -1 with another errno.
QueryOutcomes == {"ok", "ENOMEM", "other"}

\* PyArg_ParseTuple and the switch on flags: both return NULL at once.
LqParse ==
    /\ lq.pc = "parse"
    /\ lq' = IF lq.flags = "notint"
             THEN [lq EXCEPT !.pc = "returned", !.exc = "TypeError"]
             ELSE IF lq.flags \notin ValidFlags
             THEN [lq EXCEPT !.pc = "returned", !.exc = "ValueError"]
             ELSE [lq EXCEPT !.pc = "malloc"]
    /\ UNCHANGED dlvars

\* ldibuf = malloc(bufsize), at line 35 and again at line 41.
LqMalloc ==
    /\ lq.pc = "malloc"
    /\ \E ok \in BOOLEAN :
          lq' = IF ok
                THEN [lq EXCEPT !.pc = "while",
                                !.bufs = Append(@, [size |-> lq.bufsize, frees |-> 0]),
                                !.ldibuf = Len(lq.bufs) + 1]
                ELSE [lq EXCEPT !.pc = "while", !.ldibuf = NULL, !.errno = ENOMEM]
    /\ UNCHANGED dlvars

\* The condition of the while: ldibuf != NULL, then the call of loadquery,
\* then errno.  The system answers ENOMEM at most MaxGrow times.
LqWhile ==
    /\ lq.pc = "while"
    /\ IF lq.ldibuf = NULL
       THEN lq' = [lq EXCEPT !.pc = "after"]
       ELSE \E out \in QueryOutcomes :
              /\ out = "ENOMEM" => Len(lq.calls) < MaxGrow
              /\ lq' = [lq EXCEPT
                           !.calls = Append(@, [buf |-> lq.ldibuf,
                                                size |-> lq.bufsize, out |-> out]),
                           !.errflag = IF out = "ok" THEN "0" ELSE "-1",
                           !.errno = IF out = "ENOMEM" THEN ENOMEM
                                     ELSE IF out = "other" THEN EINVAL ELSE @,
                           !.pc = IF out = "ENOMEM" THEN "retry" ELSE "after"]
    /\ UNCHANGED dlvars

\* free(ldibuf) in the body of the while.
LqFree ==
    /\ lq.pc = "retry"
    /\ lq' = [lq EXCEPT !.pc = "grow", !.bufs[lq.ldibuf].frees = @ + 1]
    /\ UNCHANGED dlvars

\* bufsize += 1024, and on to the malloc of line 41.
LqGrow ==
    /\ lq.pc = "grow"
    /\ lq' = [lq EXCEPT !.pc = "malloc", !.bufsize = @ + Increment]
    /\ UNCHANGED dlvars

\* The two tests after the while: MemoryError, SystemError, or go on.
LqAfter ==
    /\ lq.pc = "after"
    /\ lq' = IF lq.ldibuf = NULL
             THEN [lq EXCEPT !.pc = "cleanup", !.exc = "MemoryError"]
             ELSE IF lq.errflag = "-1"
             THEN [lq EXCEPT !.pc = "cleanup", !.exc = "SystemError"]
             ELSE [lq EXCEPT !.pc = "list"]
    /\ UNCHANGED dlvars

\* result = PyList_New(0); if (!result) break;
LqList ==
    /\ lq.pc = "list"
    /\ \E ok \in BOOLEAN :
          lq' = IF ok
                THEN [lq EXCEPT !.pc = "build", !.result = "list"]
                ELSE [lq EXCEPT !.pc = "cleanup", !.result = "NULL", !.exc = "python"]
    /\ UNCHANGED dlvars

\* The list is filled from the buffer; final_result = result when every
\* entry could be built and appended, break otherwise.
LqBuild ==
    /\ lq.pc = "build"
    /\ \E ok \in BOOLEAN :
          lq' = IF ok
                THEN [lq EXCEPT !.pc = "cleanup", !.final_result = lq.result]
                ELSE [lq EXCEPT !.pc = "cleanup", !.exc = "python"]
    /\ UNCHANGED dlvars

\* if (!final_result && result) Py_DECREF(result);  After the break of line
\* 45 or 49 result has never been written: what the read gives is not
\* defined.  It reads as NULL, or as some other pointer, and Py_DECREF of
\* that pointer either writes somewhere in memory and goes on, or faults.
LqCleanup ==
    /\ lq.pc = "cleanup"
    /\ IF lq.result = "unset"
       THEN \E ub \in {"null", "wild", "fault"} :
              lq' = IF ub = "fault"
                    THEN [lq EXCEPT !.pc = "fault", !.result = "wild"]
                    ELSE [lq EXCEPT !.pc = "free",
                                    !.result = IF ub = "null" THEN "NULL" ELSE "wild"]
       ELSE lq' = IF lq.final_result = "NULL" /\ lq.result # "NULL"
                  THEN [lq EXCEPT !.pc = "free", !.result = "released"]
                  ELSE [lq EXCEPT !.pc = "free"]
    /\ UNCHANGED dlvars

\* free(ldibuf); return final_result;
LqFreeLast ==
    /\ lq.pc = "free"
    /\ lq' = IF lq.ldibuf = NULL
             THEN [lq EXCEPT !.pc = "returned"]
             ELSE [lq EXCEPT !.pc = "returned", !.bufs[lq.ldibuf].frees = @ + 1]
    /\ UNCHANGED dlvars

InitQuery ==
    /\ path = SpecialPath(NULL)
    /\ HeapInit
    /\ lq \in {LqEntry(f) : f \in Flags}

NextQuery ==
    \/ LqParse \/ LqMalloc \/ LqWhile \/ LqFree \/ LqGrow
    \/ LqAfter \/ LqList \/ LqBuild \/ LqCleanup \/ LqFreeLast

\* One call of py_loadquery, statement by statement.
SpecQuery == InitQuery /\ [][NextQuery]_vars

\* ------------------------------------------------------------ two threads
\* Each thread runs ctypes_dlopen, ctypes_dlsym and ctypes_dlclose on its own
\* member list, one statement with a native call or an allocation at a time,
\* in any interleaving with the other thread.  The heap of wrapper objects
\* and the linker's handles are the process's; errno is the thread's own, as
\* it is in a threaded build.
Upd(t, r) == th' = [th EXCEPT ![t] = r]

\* The rank of native handle h among the handles thread t has been given.
Rank(t, h) == CHOOSE k \in 1..Len(th[t].got) : th[t].got[k] = h

\* Mutant of PathBufOf: one static buffer serves every call.
PathBufOf_static(t) == 1

\* The buffer strdup(path) returns to the call of thread t: a new one for
\* each call.
PathBufOf(t) == t

\* ctypes_dlopen up to the call of multiple_open.
T_Enter(t) ==
    LET r == th[t]
        opening == strrchr(r.path, "(")
    IN  /\ r.pc = "start"
        /\ MemberSpec(r.path)
        /\ strchr(r.path, opening, ",") # 0
        /\ Upd(t, [r EXCEPT !.pc = "strdup",
                            !.mode = BitOr(@, RTLD_MEMBER),
                            !.members = opening + 1,
                            !.log = NewLog(r.errno)])
        /\ UNCHANGED <<path, objects, native, errno, handles, last, lq, heapbuf>>

\* pathbuf = strdup(path); memberbuf = members - path + pathbuf;
T_Strdup(t) ==
    LET r == th[t]
    IN  /\ r.pc = "strdup"
        /\ \E ok \in BOOLEAN :
              IF ok
              THEN /\ heapbuf' = [heapbuf EXCEPT ![PathBufOf(t)] = strdup(r.path).bytes]
                   /\ Upd(t, [r EXCEPT !.pc = "malloc", !.memberbuf = r.members])
              ELSE /\ Upd(t, [r EXCEPT !.pc = "freebuf", !.errno = ENOMEM,
                                       !.log.nomem = 1])
                   /\ UNCHANGED heapbuf
        /\ UNCHANGED <<path, objects, native, errno, handles, last, lq>>

\* The count of the members and loaded = malloc(...).
T_Malloc(t) ==
    LET r == th[t]
    IN  /\ r.pc = "malloc"
        /\ \E ok \in BOOLEAN :
              IF ok
              THEN /\ objects' = Append(objects,
                                        [NewObject EXCEPT
                                            !.loader = "multiple",
                                            !.slots = 1 + CountMembers(r.path, r.members)])
                   /\ Upd(t, [r EXCEPT !.pc = "copy", !.loaded = Len(objects) + 1])
              ELSE /\ Upd(t, [r EXCEPT !.pc = "freebuf", !.errno = ENOMEM,
                                       !.log.nomem = 2])
                   /\ UNCHANGED objects
        /\ UNCHANGED <<path, native, errno, handles, last, lq, heapbuf>>

\* The strncpy and strcpy of one turn of while(members).
T_Copy(t) ==
    LET r == th[t]
        b == PathBufOf(t)
    IN  /\ r.pc = "copy"
        /\ heapbuf' = [heapbuf EXCEPT
                           ![b] = MemberPath(@, r.memberbuf, r.path, r.members)]
        /\ Upd(t, [r EXCEPT !.pc = "dlopen"])
        /\ UNCHANGED <<path, objects, native, errno, handles, last, lq>>

\* loaded->dlhandles[memberno] = dlopen(pathbuf, mode) and the rest of the
\* turn: break, or the terminator and the step to the next member.
T_Dlopen(t) ==
    LET r == th[t]
        p == CStr(heapbuf[PathBufOf(t)])
        h == Len(native) + 1
        nextmember == MemberEnd(r.path, r.members)
        next == IF At(r.path, nextmember) = "," THEN nextmember + 1 ELSE 0
    IN  /\ r.pc = "dlopen"
        /\ \E ok \in BOOLEAN :
              LET opened == [r EXCEPT
                                !.log.opens = Append(@, [path |-> p, mode |-> r.mode,
                                                         ok |-> ok])]
              IN  IF ok
                  THEN /\ native' = Append(native, 0)
                       /\ objects' = [objects EXCEPT
                                          ![r.loaded].dlhandles = Append(@, h)]
                       /\ Upd(t, [opened EXCEPT
                                      !.got = Append(@, h),
                                      !.members = next,
                                      !.pc = IF next = 0 THEN "freebuf" ELSE "copy"])
                  ELSE /\ Upd(t, [opened EXCEPT !.pc = "unwind", !.i = 1, !.ret = 0])
                       /\ UNCHANGED <<objects, native>>
        /\ UNCHANGED <<path, errno, handles, last, lq, heapbuf>>

\* The wrapper multiple_close works on: the one being unwound, or the handle.
Closing(t) == IF th[t].pc = "unwind" THEN th[t].loaded ELSE th[t].handle

\* One turn of the while of multiple_close.
T_Dlclose(t) ==
    LET r == th[t]
        d == objects[Closing(t)].dlhandles
    IN  /\ r.pc \in {"unwind", "close"}
        /\ r.i <= Len(d)
        /\ \E ok \in BOOLEAN :
              /\ native' = [native EXCEPT ![d[r.i]] = @ + 1]
              /\ Upd(t, [r EXCEPT
                             !.log.closes = Append(@, [h |-> Rank(t, d[r.i]), ok |-> ok]),
                             !.ret = IF ok THEN @ ELSE EINVAL,
                             !.i = @ + 1])
        /\ UNCHANGED <<path, objects, errno, handles, last, lq, heapbuf>>

\* free(objects) and the return of multiple_close; after an unwind,
\* loaded = NULL.
T_Free(t) ==
    LET r == th[t]
        d == objects[Closing(t)].dlhandles
    IN  /\ r.pc \in {"unwind", "close"}
        /\ r.i > Len(d)
        /\ objects' = [objects EXCEPT ![Closing(t)].frees = @ + 1]
        /\ Upd(t, [r EXCEPT
                       !.log.frees = @ + 1,
                       !.errno = IF r.ret = 0 THEN @ ELSE EINVAL,
                       !.loaded = IF r.pc = "unwind" THEN NULL ELSE @,
                       !.pc = IF r.pc = "unwind" THEN "freebuf" ELSE "closed"])
        /\ UNCHANGED <<path, native, errno, handles, last, lq, heapbuf>>

\* free(pathbuf); return loaded;
T_FreePathbuf(t) ==
    LET r == th[t]
    IN  /\ r.pc = "freebuf"
        /\ Upd(t, [r EXCEPT !.pc = "opened", !.handle = r.loaded, !.ret = r.loaded])
        /\ UNCHANGED <<path, objects, native, errno, handles, last, lq, heapbuf>>

\* ctypes_dlsym(handle, symbol) up to the loop of multiple_sym.
T_SymEnter(t) ==
    LET r == th[t]
    IN  /\ r.pc = "opened"
        /\ r.handle # NULL
        /\ Upd(t, [r EXCEPT !.pc = "sym", !.i = 1, !.log = NewLog(r.errno)])
        /\ UNCHANGED <<path, objects, native, errno, handles, last, lq, heapbuf>>

\* One turn of the while of multiple_sym, with what the native lookup
\* answers, or the end of the loop.
T_Dlsym(t) ==
    LET r == th[t]
        d == objects[r.handle].dlhandles
    IN  /\ r.pc = "sym"
        /\ IF r.i > Len(d)
           THEN Upd(t, [r EXCEPT !.pc = "looked", !.ret = NULL])
           ELSE \E o \in SymOutcomes :
                  LET ret == IF o = "addr" THEN AddrOf(Rank(t, d[r.i])) ELSE NULL
                      err == IF o = "err" THEN EINVAL
                             ELSE IF o = "miss0" THEN 0 ELSE r.errno
                      asked == [r EXCEPT
                                   !.log.probes = Append(@, [h |-> Rank(t, d[r.i]),
                                                             out |-> o]),
                                   !.errno = err]
                  IN  IF ret # NULL \/ err # 0
                      THEN Upd(t, [asked EXCEPT !.pc = "looked", !.ret = ret])
                      ELSE Upd(t, [asked EXCEPT !.i = @ + 1])
        /\ UNCHANGED <<path, objects, native, errno, handles, last, lq, heapbuf>>

\* ctypes_dlclose(handle) up to the loop of multiple_close.
T_CloseEnter(t) ==
    LET r == th[t]
    IN  /\ r.pc = "looked"
        /\ Upd(t, [r EXCEPT !.pc = "close", !.i = 1, !.ret = 0,
                            !.log = NewLog(r.errno)])
        /\ UNCHANGED <<path, objects, native, errno, handles, last, lq, heapbuf>>

InitThreads == path = SpecialPath(NULL) /\ HeapInit /\ NoQuery

NextThreads ==
    \E t \in Threads :
        \/ T_Enter(t) \/ T_Strdup(t) \/ T_Malloc(t) \/ T_Copy(t) \/ T_Dlopen(t)
        \/ T_Dlclose(t) \/ T_Free(t) \/ T_FreePathbuf(t)
        \/ T_SymEnter(t) \/ T_Dlsym(t) \/ T_CloseEnter(t)

\* Two threads on two handles, in every interleaving of their steps.
SpecThreads == InitThreads /\ [][NextThreads]_vars

\* ------------------------------------------------- the addressing syntax
\* The syntax as the specification words it, independent of the C code:
\* "filename(member[,member,...])" is a string whose last character is ')',
\* with a '(' to match it after the first character, at least one character
\* between the two, and no '/' between them.
IsString(p) == p.ptr \notin {NULL} \cup Sentinels

OpenParen(s) == Max({0} \cup {i \in 1..Len(s) : s[i] = "("})

Content(s) == SubSeq(s, OpenParen(s) + 1, Len(s) - 1)

WellFormed(s) ==
    /\ Len(s) >= 1
    /\ s[Len(s)] = ")"
    /\ OpenParen(s) > 1
    /\ Len(Content(s)) >= 1
    /\ \A i \in 1..Len(Content(s)) : Content(s)[i] # "/"

\* The content split on ',': the ordered member names, empty ones included.
RECURSIVE Split(_)
Split(c) ==
    LET I == {i \in 1..Len(c) : c[i] = ","}
    IN  IF I = {} THEN <<c>>
        ELSE <<SubSeq(c, 1, Min(I) - 1)>> \o Split(SubSeq(c, Min(I) + 1, Len(c)))

MemberList(s) == Split(Content(s))

\* "filename(mi)": the path with only member mi between its parentheses.
OneMember(s, mi) == StringPath(SubSeq(s, 1, OpenParen(s)) \o mi \o <<")">>)

MemberPaths(s) == [i \in 1..Len(MemberList(s)) |-> OneMember(s, MemberList(s)[i])]

Recognized(p) == IsString(p) /\ WellFormed(p.chars)

MultiMember(p) == Recognized(p) /\ Len(MemberList(p.chars)) > 1

\* The opens of the last call that failed, by position.
FailedOpens == {k \in 1..Len(last.opens) : last.opens[k].h = NULL}

\* How many native closes the last call issued on native handle h.
ClosesOf(h) == Cardinality({j \in 1..Len(last.closes) : last.closes[j].h = h})

\* The wrappers that are not freed and have h in a slot.
Holders(h) ==
    {o \in 1..Len(objects) :
        objects[o].frees = 0 /\ \E i \in 1..Len(objects[o].dlhandles) : objects[o].dlhandles[i] = h}

\* --------------------------------------------------------------------- C1
\* C1: in a multi-member open of N members whose k-th native open fails
\* (1 <= k < N), every native handle opened for members 1..k-1 is closed
\* exactly once, ctypes_dlopen returns NULL, and no native handle of the
\* attempt is left open (none is without its close, none is held by a wrapper).
C1_UnwindOnFailure ==
    (last.op = "dlopen" /\ MultiMember(path) /\ FailedOpens # {})
        => LET k == Min(FailedOpens)
               N == Len(MemberList(path.chars))
           IN  k < N =>
                 /\ last.ret = NULL
                 /\ \A i \in 1..(k - 1) :
                        /\ last.opens[i].h # NULL
                        /\ ClosesOf(last.opens[i].h) = 1
                        /\ native[last.opens[i].h] = 1
                 /\ \A i \in 1..Len(last.opens) :
                        last.opens[i].h # NULL =>
                            /\ native[last.opens[i].h] >= 1
                            /\ Holders(last.opens[i].h) = {}

\* A three-member open whose second native open failed after the first succeeded.
C1_Witness ==
    /\ last.op = "dlopen"
    /\ MultiMember(path)
    /\ Len(MemberList(path.chars)) = 3
    /\ Len(last.opens) = 2
    /\ last.opens[1].h # NULL
    /\ last.opens[2].h = NULL
    /\ native[last.opens[1].h] = 1
    /\ last.ret = NULL

\* --------------------------------------------------------------------- C2
\* C2 (as claimed): for a path with a well-formed "(m1,...,mN)" suffix,
\* ctypes_dlopen issues exactly N native opens, the i-th on "filename(mi)".
C2_ExactlyN ==
    (last.op = "dlopen" /\ Recognized(path))
        => /\ Len(last.opens) = Len(MemberList(path.chars))
           /\ \A i \in 1..Len(last.opens) :
                  last.opens[i].path = MemberPaths(path.chars)[i]

\* C2 (amended): the native opens are issued in list order, the i-th on
\* "filename(mi)", and go on only while they succeed: all N are issued when
\* every allocation and every native open succeeds, they stop with the first
\* native open that fails, and none is issued when an allocation fails.
C2_OpensInOrder ==
    (last.op = "dlopen" /\ Recognized(path))
        => LET N == Len(MemberList(path.chars))
               n == Len(last.opens)
           IN  /\ n <= N
               /\ \A i \in 1..n : last.opens[i].path = MemberPaths(path.chars)[i]
               /\ \A i \in 1..(n - 1) : last.opens[i].h # NULL
               /\ last.nomem => n = 0
               /\ ~last.nomem => n >= 1 /\ (n = N \/ last.opens[n].h = NULL)
               /\ (FailedOpens = {} /\ ~last.nomem) => n = N

\* Two members opened with two different per-member paths, both successfully.
C2_Witness ==
    /\ last.op = "dlopen"
    /\ Recognized(path)
    /\ Len(last.opens) = 2
    /\ Len(MemberList(path.chars)) = 2
    /\ last.opens[1].path # last.opens[2].path
    /\ FailedOpens = {}
    /\ last.ret # NULL

\* --------------------------------------------------------------------- C3
\* The wrapper the last close or lookup was called on, when it was a live one.
OnLive(kind) ==
    /\ last.live
    /\ objects[last.harg].loader = kind

\* C3: on a Multi-Member handle over [A, B, ...], when A's native lookup
\* returns NULL with the error indicator set and B's would have resolved the
\* symbol, ctypes_dlsym returns NULL with the error indicator still set, and
\* A's lookup is the only native lookup of the call.
C3_ErrorStopsLookup ==
    (last.op = "dlsym" /\ OnLive("multiple")
        /\ last.would[1] = "err" /\ last.would[2] = "addr")
        => /\ last.ret = NULL
           /\ errno # 0
           /\ Len(last.probes) = 1
           /\ last.probes[1].h = objects[last.harg].dlhandles[1]

C3_Witness ==
    /\ last.op = "dlsym"
    /\ OnLive("multiple")
    /\ last.would[1] = "err"
    /\ last.would[2] = "addr"
    /\ Len(last.probes) = 1
    /\ last.ret = NULL

\* --------------------------------------------------------------------- C4
\* C4: on a Multi-Member handle over [A, B, ...], when A's native lookup
\* returns NULL with no error and B's returns address X, ctypes_dlsym returns
\* X; and when every member's lookup returns NULL with no error the result is
\* NULL.
NoError == {"miss", "miss0"}

C4_FallThrough ==
    (last.op = "dlsym" /\ OnLive("multiple"))
        => /\ (last.would[1] \in NoError /\ last.would[2] = "addr")
                => last.ret = AddrOf(objects[last.harg].dlhandles[2])
           /\ (\A i \in 1..Len(last.would) : last.would[i] \in NoError)
                => last.ret = NULL

\* --------------------------------------------------------------------- C5
\* C5: closing a live Multi-Member handle frees the aggregate exactly once,
\* whatever the member count and the outcomes of the member closes, and the
\* call reports failure if and only if at least one native close failed.
C5_AggregateClose ==
    (last.op = "dlclose" /\ OnLive("multiple"))
        => /\ last.frees = <<last.harg>>
           /\ objects[last.harg].frees = 1
           /\ (last.ret # 0) <=> (\E j \in 1..Len(last.closes) : ~last.closes[j].ok)

\* An aggregate close in which one member close failed and another succeeded.
C5_Witness ==
    /\ last.op = "dlclose"
    /\ OnLive("multiple")
    /\ \E j \in 1..Len(last.closes) : ~last.closes[j].ok
    /\ \E j \in 1..Len(last.closes) : last.closes[j].ok
    /\ last.ret # 0
    /\ objects[last.harg].frees = 1

\* --------------------------------------------------------------------- C6
\* A string that has no parentheses, or whose parentheses do not end it.
LiteralShape(s) == Len(s) = 0 \/ s[Len(s)] # ")"

\* C6 (as claimed): such a path is opened with exactly one native open, on
\* the unmodified path.
C6_ExactlyOneOpen ==
    (last.op = "dlopen" /\ IsString(path) /\ LiteralShape(path.chars))
        => /\ Len(last.opens) = 1
           /\ last.opens[1].path = path

\* C6 (amended): such a path is opened with at most one native open, on the
\* unmodified path: exactly one when the wrapper's allocation succeeds, none
\* (and NULL is returned) when it fails.
C6_LiteralUnmodified ==
    (last.op = "dlopen" /\ IsString(path) /\ LiteralShape(path.chars))
        => /\ Len(last.opens) <= 1
           /\ \A i \in 1..Len(last.opens) : last.opens[i].path = path
           /\ ~last.nomem => Len(last.opens) = 1
           /\ last.nomem => Len(last.opens) = 0 /\ last.ret = NULL

\* A path with a member list in parentheses that do not end the string.
C6_Witness ==
    /\ last.op = "dlopen"
    /\ IsString(path)
    /\ LiteralShape(path.chars)
    /\ \E i \in 1..Len(path.chars) : path.chars[i] = "("
    /\ \E i \in 1..Len(path.chars) : path.chars[i] = ","
    /\ \E i \in 1..Len(path.chars) : path.chars[i] = ")"
    /\ Len(last.opens) = 1
    /\ last.opens[1].path = path

\* --------------------------------------------------------------------- C7
HasMemberFlag(mode) == (mode \div RTLD_MEMBER) % 2 = 1

WithMemberFlag(mode) == IF HasMemberFlag(mode) THEN mode ELSE mode + RTLD_MEMBER

\* C7: every native open of a path recognized as member syntax gets the
\* caller's mode with RTLD_MEMBER or-ed in, and every native open of a literal
\* path or of a NULL or sentinel path gets the caller's mode unchanged.
C7_MemberFlag ==
    last.op = "dlopen"
        => \A i \in 1..Len(last.opens) :
               last.opens[i].mode =
                   IF Recognized(path) THEN WithMemberFlag(last.mode) ELSE last.mode

\* A recognized path opened by a caller whose mode already has the flag.
C7_Witness ==
    /\ last.op = "dlopen"
    /\ Recognized(path)
    /\ HasMemberFlag(last.mode)
    /\ Len(last.opens) = 2
    /\ last.opens[2].mode = last.mode

\* --------------------------------------------------------------------- C8
\* The handle of the last call had been closed before the call.
OnClosed == last.harg \in handles /\ ~last.live

\* C8: a NULL handle or an already closed handle passed to ctypes_dlclose or
\* ctypes_dlsym is rejected with an invalid-argument failure, without reading
\* the handle's memory and without any native close or lookup.
C8_InvalidHandleRejected ==
    (last.op \in {"dlclose", "dlsym"} /\ (last.harg = NULL \/ OnClosed))
        => /\ ~last.deref
           /\ ~last.crashed
           /\ last.closes = <<>>
           /\ last.probes = <<>>
           /\ last.frees = <<>>
           /\ errno = EINVAL
           /\ last.ret = IF last.op = "dlclose" THEN EINVAL ELSE NULL

\* --------------------------------------------------------------------- C9
\* C9: a sentinel handle is handed unchanged to the native dlclose / dlsym,
\* whose answer is returned, and no loader table is read through it; a
\* sentinel path is handed unchanged, with the caller's mode, to the native
\* open (when the wrapper could be allocated) and the member syntax is not
\* looked for in it.
C9_SentinelPassThrough ==
    /\ (last.op = "dlclose" /\ last.harg \in Sentinels)
           => /\ ~last.deref
              /\ Len(last.closes) = 1
              /\ last.closes[1].h = last.harg
              /\ last.probes = <<>>
              /\ last.frees = <<>>
              /\ (last.ret = 0) <=> last.closes[1].ok
    /\ (last.op = "dlsym" /\ last.harg \in Sentinels)
           => /\ ~last.deref
              /\ Len(last.probes) = 1
              /\ last.probes[1].h = last.harg
              /\ last.closes = <<>>
              /\ (last.ret # NULL) <=> last.would[1] = "addr"
    /\ (last.op = "dlopen" /\ path.ptr \in Sentinels)
           => /\ ~last.parsed
              /\ Len(last.opens) <= 1
              /\ ~last.nomem => Len(last.opens) = 1
              /\ \A i \in 1..Len(last.opens) :
                     last.opens[i].path = path /\ last.opens[i].mode = last.mode

\* A lookup through RTLD_NEXT that the native dlsym resolved.
C9_Witness ==
    /\ last.op = "dlsym"
    /\ last.harg = RTLD_NEXT
    /\ Len(last.probes) = 1
    /\ last.probes[1].h = RTLD_NEXT
    /\ last.ret # NULL

\* -------------------------------------------------------------------- C10
\* C10: closing a live Single handle issues exactly one native close, on its
\* native handle, frees the wrapper exactly once whether or not that close
\* succeeded, and reports failure if and only if the native close did; so
\* after the call the handle is closed.
C10_SingleClose ==
    (last.op = "dlclose" /\ OnLive("single"))
        => /\ Len(last.closes) = 1
           /\ last.closes[1].h = objects[last.harg].dlhandles[1]
           /\ native[last.closes[1].h] = 1
           /\ last.frees = <<last.harg>>
           /\ objects[last.harg].frees = 1
           /\ (last.ret # 0) <=> ~last.closes[1].ok

\* A Single close whose native close failed: the wrapper is freed all the same.
C10_Witness ==
    /\ last.op = "dlclose"
    /\ OnLive("single")
    /\ Len(last.closes) = 1
    /\ ~last.closes[1].ok
    /\ last.ret # 0
    /\ objects[last.harg].frees = 1

\* ------------------------------------------------------------- ownership
\* A slot is one position of one wrapper's dlhandles; a slot is live while
\* its wrapper has not been freed.  A native handle is open until a native
\* close has been issued on it.
Slots == {sl \in (1..Len(objects)) \X (1..MaxMembers + 1) :
             sl[2] <= Len(objects[sl[1]].dlhandles)}

SlotsOf(h) == {sl \in Slots : objects[sl[1]].dlhandles[sl[2]] = h}

LiveSlotsOf(h) == {sl \in SlotsOf(h) : objects[sl[1]].frees = 0}

\* C11: single owner at all times.  In every state reached by open, lookup
\* and close calls, every native handle that is open sits in exactly one
\* slot and that slot's wrapper is live; no native handle sits in two slots;
\* and a wrapper that was freed holds no open native handle.
C11_SingleOwner ==
    \A h \in 1..Len(native) :
        /\ Cardinality(SlotsOf(h)) <= 1
        /\ native[h] = 0 =>
              /\ Cardinality(LiveSlotsOf(h)) = 1
              /\ SlotsOf(h) = LiveSlotsOf(h)

\* Two live wrappers of two members each, opened from the same path: four
\* open native handles, each in a slot of its own.
C11_Witness ==
    /\ Cardinality({o \in 1..Len(objects) : objects[o].frees = 0}) = 2
    /\ \E o \in 1..Len(objects) :
          objects[o].frees = 0 /\ Len(objects[o].dlhandles) = 2
    /\ Cardinality({h \in 1..Len(native) : native[h] = 0}) = 4

\* -------------------------------------------------------------------- C14
\* The native opens of the last call are the literal treatment of the path:
\* the caller's path and the caller's mode, both unchanged.
LiteralOpens ==
    \A k \in 1..Len(last.opens) :
        last.opens[k].path = path /\ last.opens[k].mode = last.mode

\* The native opens of the last call are the member treatment: the member
\* flag is in the mode of each of them.
MemberOpens ==
    \A k \in 1..Len(last.opens) : HasMemberFlag(last.opens[k].mode)

\* C14 (as claimed): a string path gets the member treatment exactly when its
\* last character is ')', its rightmost '(' is not its first character, the
\* text between the two is at least one character long and holds no '/'; in
\* every other case there is one native open, of the unchanged path.
C14_RecognizedIff ==
    (last.op = "dlopen" /\ IsString(path))
        => IF WellFormed(path.chars)
           THEN MemberOpens
           ELSE Len(last.opens) = 1 /\ LiteralOpens

\* C14 (amended): the same, where the one native open of the literal case is
\* made when the wrapper could be allocated and no native open is made (NULL
\* is returned) when it could not.
C14_Recognition ==
    (last.op = "dlopen" /\ IsString(path))
        => IF WellFormed(path.chars)
           THEN MemberOpens
           ELSE /\ LiteralOpens
                /\ ~last.nomem => Len(last.opens) = 1
                /\ last.nomem => Len(last.opens) = 0 /\ last.ret = NULL

\* A path that ends in ')' and has a '(' after its first character, but a '/'
\* between the two, opened literally by a caller whose mode lacks the flag.
C14_Witness ==
    /\ last.op = "dlopen"
    /\ IsString(path)
    /\ Len(path.chars) >= 4
    /\ path.chars[Len(path.chars)] = ")"
    /\ OpenParen(path.chars) > 1
    /\ \E i \in 1..Len(Content(path.chars)) : Content(path.chars)[i] = "/"
    /\ ~HasMemberFlag(last.mode)
    /\ Len(last.opens) = 1
    /\ LiteralOpens

\* -------------------------------------------------------------------- C15
\* A string "filename(...)" with a non-empty filename part whose ','-separated
\* segments are all empty: "f()", "f(,)", "f(,,)", ...
AllEmpty(s) ==
    /\ Len(s) >= 1
    /\ s[Len(s)] = ")"
    /\ OpenParen(s) > 1
    /\ \A i \in 1..Len(MemberList(s)) : MemberList(s)[i] = <<>>

C16_AllocateFirst ==
    (last.op = "dlopen" /\ MultiMember(path))
        => /\ \A k \in 1..Len(last.opens) : last.opens[k].after = 2
           /\ \A o \in 1..Len(objects) :
                 /\ objects[o].slots = Len(MemberList(path.chars)) + 1
                 /\ Len(objects[o].dlhandles) + 1 <= objects[o].slots
           /\ last.nomem =>
                 /\ last.opens = <<>>
                 /\ last.closes = <<>>
                 /\ native = <<>>
                 /\ last.ret = NULL

\* The path was copied and then the wrapper could not be allocated.
C16_Witness ==
    /\ last.op = "dlopen"
    /\ MultiMember(path)
    /\ Len(MemberList(path.chars)) = 3
    /\ last.nomem
    /\ last.pathbuf = "freed"
    /\ last.opens = <<>>
    /\ last.ret = NULL

\* -------------------------------------------------------------------- C17
\* The native handles the last call issued a native close on, in call order.
Closed == [j \in 1..Len(last.closes) |-> last.closes[j].h]

\* C17: closing a live Multi-Member handle of N members issues exactly one
\* native close on each of the N members, in the order they were opened,
\* whether or not the closes before it succeeded.
C17_CloseEachOnce ==
    (last.op = "dlclose" /\ OnLive("multiple"))
        => /\ Closed = objects[last.harg].dlhandles
           /\ \A j, k \in 1..Len(Closed) : j < k => Closed[j] < Closed[k]
           /\ \A h \in Range(Closed) : native[h] = 1

\* Three members, the close of the first one failed, the other two were
\* closed all the same.
C17_Witness ==
    /\ last.op = "dlclose"
    /\ OnLive("multiple")
    /\ Len(last.closes) = 3
    /\ ~last.closes[1].ok
    /\ last.closes[2].ok
    /\ Closed = objects[last.harg].dlhandles

\* -------------------------------------------------------------------- C18
\* The first member, in open order, whose native lookup resolves the symbol
\* in the last call; one past the last member when none does.
FirstHit ==
    Min({i \in 1..Len(last.would) : last.would[i] = "addr"}
            \cup {Len(last.would) + 1})

\* C18: a lookup on a live Multi-Member handle asks the members one by one in
\* open order, starting from the first; a member whose native lookup returns
\* an address ends the call with that address, so no member after the first
\* one that can resolve the symbol is ever asked and no address but that
\* member's can be returned.
C18_FirstMatchWins ==
    (last.op = "dlsym" /\ OnLive("multiple"))
        => LET d == objects[last.harg].dlhandles
               n == Len(last.probes)
           IN  /\ n <= Len(d)
               /\ \A i \in 1..n : last.probes[i].h = d[i]
               /\ n <= FirstHit
               /\ \A i \in 1..n :
                     last.probes[i].out = "addr" => i = n /\ last.ret = AddrOf(d[i])
               /\ last.ret # NULL => n = FirstHit /\ last.ret = AddrOf(d[n])

\* The second and the third of three members can both resolve the symbol:
\* the second one's address is returned and the third is not asked.
C18_Witness ==
    /\ last.op = "dlsym"
    /\ OnLive("multiple")
    /\ Len(last.would) = 3
    /\ last.would[1] \in NoError
    /\ last.would[2] = "addr"
    /\ last.would[3] = "addr"
    /\ Len(last.probes) = 2
    /\ last.ret = AddrOf(objects[last.harg].dlhandles[2])

\* -------------------------------------------------------------------- C19
\* The member at which a lookup over the members stops when only the answers
\* of the native lookups decide: the first one that resolves the symbol or
\* reports an error; one past the last member when there is none.
StopAt ==
    Min({i \in 1..Len(last.would) : last.would[i] \in {"addr", "err"}}
            \cup {Len(last.would) + 1})

\* C19: the result of ctypes_dlsym on a live Multi-Member handle and the
\* members it asks are a function of what the members' native lookups answer
\* in that call, and of nothing else: the members up to the first that
\* resolves the symbol or reports an error are asked, and the result is the
\* address when that member resolved it and NULL otherwise, whatever value
\* errno had when the call began.
C19_ErrnoIndependent ==
    (last.op = "dlsym" /\ OnLive("multiple"))
        => LET d == objects[last.harg].dlhandles
           IN  /\ Len(last.probes) = Min({StopAt, Len(d)})
               /\ last.ret = IF StopAt <= Len(d) /\ last.would[StopAt] = "addr"
                              THEN AddrOf(d[StopAt])
                              ELSE NULL

\* -------------------------------------------------------------------- C20
\* C20: ctypes_dlopen leaves the caller's path string as it found it, byte
\* for byte.  The per-member paths of a multi-member open are written into a
\* copy of the string, and that copy has been released when the call returns,
\* whether it returns a handle, fails in a native open or fails in the
\* allocation of the wrapper; when the copy itself could not be allocated
\* there is nothing to release.
C20_PathUntouched ==
    (last.op = "dlopen" /\ IsString(path))
        => /\ last.caller = Append(path.chars, NUL)
           /\ last.pathbuf # "held"
           /\ MultiMember(path) =>
                 /\ last.pathbuf = "none" => last.nomem /\ last.opens = <<>>
                 /\ ~last.nomem => last.pathbuf = "freed"

\* A multi-member open that wrote three member paths into its copy, failed
\* in the third native open, and released the copy.
C20_Witness ==
    /\ last.op = "dlopen"
    /\ MultiMember(path)
    /\ Len(last.opens) = 3
    /\ last.opens[3].h = NULL
    /\ last.opens[2].path # path
    /\ last.pathbuf = "freed"
    /\ last.caller = Append(path.chars, NUL)
    /\ last.ret = NULL

\* -------------------------------------------------------------------- C13
\* The call of py_loadquery is over: it returned, or the process faulted.
LqOver == lq.pc \in {"returned", "fault"}

\* A call of loadquery is followed by another one exactly when it answered -1
\* with ENOMEM: any other answer is the last call, and after an ENOMEM answer
\* the wrapper goes on to the next attempt unless that attempt's buffer
\* cannot be allocated.
RetryExactlyOnENOMEM ==
    \A k \in 1..Len(lq.calls) :
        /\ lq.calls[k].out # "ENOMEM" => k = Len(lq.calls)
        /\ (lq.calls[k].out = "ENOMEM" /\ k = Len(lq.calls))
              => \/ lq.pc \in {"retry", "grow", "malloc"}
                 \/ lq.pc = "while" /\ lq.ldibuf # NULL
                 \/ lq.ldibuf = NULL

\* The k-th attempt is made with a buffer of k * 1024 bytes.
GrowBy1024 ==
    \A k \in 1..Len(lq.calls) :
        /\ lq.calls[k].size = 1024 * k
        /\ lq.bufs[lq.calls[k].buf].size = 1024 * k

\* The buffer of a failed attempt is freed before the next one is allocated:
\* at no time are two buffers allocated.
FreedBeforeNext ==
    Cardinality({b \in 1..Len(lq.bufs) : lq.bufs[b].frees = 0}) <= 1

\* No buffer is freed twice, and when the call is over every buffer it
\* allocated has been freed.
FreedOnEveryExit ==
    /\ \A b \in 1..Len(lq.bufs) : lq.bufs[b].frees <= 1
    /\ LqOver => \A b \in 1..Len(lq.bufs) : lq.bufs[b].frees = 1

\* C13: py_loadquery calls loadquery again exactly when it answered -1 with
\* errno ENOMEM, with a buffer 1024 bytes larger each time, starting from
\* 1024; the first success or the first other error ends the attempts; the
\* buffer of a failed attempt is freed before the next is allocated, and the
\* last buffer is freed exactly once however the call ends.
C13_RetryLoop ==
    /\ RetryExactlyOnENOMEM
    /\ GrowBy1024
    /\ FreedBeforeNext
    /\ FreedOnEveryExit

\* -------------------------------------------------------------------- C12
\* What the system answered to thread t during its call: the allocation that
\* failed, the native opens and closes that failed, what each native lookup
\* made answered.
SeqEnv(t) ==
    LET l == th[t].log
    IN  [nomem |-> l.nomem,
         ofails |-> {k \in 1..Len(l.opens) : ~l.opens[k].ok},
         cfails |-> {k \in 1..Len(l.closes) : ~l.closes[k].ok},
         syms |-> [k \in 1..(MaxMembers + 1) |->
                      IF k <= Len(l.probes) THEN l.probes[k].out ELSE "miss"],
         ub |-> "stale"]

\* The heap of a process in which thread t is alone and holds its handle:
\* one wrapper, its native handles numbered in open order.
AloneObjects(t) ==
    <<[loader |-> "multiple", frees |-> 0,
       dlhandles |-> [k \in 1..Len(th[t].got) |-> k],
       slots |-> Len(th[t].got) + 1]>>

AloneNative(t) == [k \in 1..Len(th[t].got) |-> 0]

\* The same three calls made with no other thread running, given the same
\* answers from the system.
SeqOpen(t) ==
    ctypes_dlopen(Begin(<<>>, <<>>, th[t].log.errno0), SeqEnv(t),
                  StringPath(ThreadPath(t)), ThreadEntry(t).mode)

SeqSym(t) ==
    ctypes_dlsym(Begin(AloneObjects(t), AloneNative(t), th[t].log.errno0),
                 SeqEnv(t), 1)

SeqClose(t) ==
    ctypes_dlclose(Begin(AloneObjects(t), AloneNative(t), th[t].log.errno0),
                   SeqEnv(t), 1)

\* C12: whatever the interleaving of the two threads' steps, each call of
\* each thread returns the same result, leaves the same errno and issues the
\* same native opens (paths and modes), closes and lookups, in the same
\* order, as the same call made with no other thread running.
C12_DistinctHandles ==
    \A t \in Threads :
        LET r == th[t]
            l == r.log
        IN  /\ r.pc = "opened" =>
                  LET m == SeqOpen(t)
                  IN  /\ l.opens = [k \in 1..Len(m.opens) |->
                                       [path |-> m.opens[k].path.chars,
                                        mode |-> m.opens[k].mode,
                                        ok |-> m.opens[k].h # NULL]]
                      /\ l.closes = m.closes
                      /\ l.frees = Len(m.frees)
                      /\ (r.ret = NULL) <=> (m.ret = NULL)
                      /\ r.errno = m.errno
                      /\ r.ret # NULL =>
                            /\ objects[r.ret].frees = 0
                            /\ [k \in 1..Len(objects[r.ret].dlhandles) |->
                                    Rank(t, objects[r.ret].dlhandles[k])]
                                  = m.objects[m.ret].dlhandles
            /\ r.pc = "looked" =>
                  LET m == SeqSym(t)
                  IN  /\ l.probes = m.probes
                      /\ r.ret = m.ret
                      /\ r.errno = m.errno
            /\ r.pc = "closed" =>
                  LET m == SeqClose(t)
                  IN  /\ l.closes = m.closes
                      /\ l.frees = Len(m.frees)
                      /\ r.ret = m.ret
                      /\ r.errno = m.errno
                      /\ objects[r.handle].frees = 1

\* Both threads have opened, looked up and closed, and their native opens
\* alternated: the linker's handles of the one lie between the other's.
C12_Witness ==
    /\ th[1].pc = "closed"
    /\ th[2].pc = "closed"
    /\ Len(th[1].got) >= 2
    /\ Len(th[2].got) >= 2
    /\ th[1].got[1] < th[2].got[1]
    /\ th[2].got[1] < th[1].got[2]
    /\ th[1].got[2] < th[2].got[2]
    /\ \E k \in 1..Len(th[1].log.closes) : ~th[1].log.closes[k].ok

====
